---- MODULE Spec2Model ----
(***************************************************************************)
(* Model of remap_code_references.py: a script that rewrites issue         *)
(* references `#<digits>` in *.swift files according to a JSON mapping.    *)
(*                                                                         *)
(* Text is modelled character by character: a string is a sequence of      *)
(* one-character strings.  JSON values are records, so that a mapping      *)
(* value that is not an integer can be told from one that is.              *)
(***************************************************************************)
EXTENDS Integers, Sequences, FiniteSets, TLC

\* ------------------------------------------------------------- bounds
MaxLineLen == 4   \* length of the exhaustively enumerated input lines
MaxRuns == 2      \* invocations of the script in one behaviour

\* The element of a one-element set.  {F(x) : x \in {e}} evaluates e once,
\* where F(e) would evaluate it wherever F uses its parameter.
The(S) == CHOOSE x \in S : TRUE

\* ------------------------------------------------------------- characters
Digits == <<"0", "1", "2", "3", "4", "5", "6", "7", "8", "9">>

IsDigit(c) == \E d \in 1..10 : Digits[d] = c

DigitValue(c) == (CHOOSE d \in 1..10 : Digits[d] = c) - 1

Letters == {"a", "b", "c", "d", "e", "n", "o", "x", "N", "S"}

\* \w of the regular expression: letters, digits and the underscore
IsWord(c) == IsDigit(c) \/ c \in Letters \/ c = "_"

IsSpace(c) == c \in {" ", "\n", "\t"}

\* ------------------------------------------------------------- JSON values
JInt(n) == [kind |-> "int", num |-> n, frac |-> 0, txt |-> <<>>]
JFloat(n, f) == [kind |-> "float", num |-> n, frac |-> f, txt |-> <<>>]
JStr(s) == [kind |-> "str", num |-> 0, frac |-> 0, txt |-> s]
JNull == [kind |-> "null", num |-> 0, frac |-> 0, txt |-> <<>>]

\* int(s) of a run of decimal digits
RECURSIVE PyIntOfFirst(_, _)
PyIntOfFirst(s, n) ==
    IF n = 0 THEN 0 ELSE 10 * PyIntOfFirst(s, n - 1) + DigitValue(s[n])

PyInt(s) == The({PyIntOfFirst(t, Len(t)) : t \in {s}})

\* str(n) of a natural number
RECURSIVE NatStr(_)
NatStr(n) ==
    IF n < 10 THEN <<Digits[n + 1]>>
    ELSE NatStr(n \div 10) \o <<Digits[(n % 10) + 1]>>

\* what f"{v}" prints for a loaded JSON value
PyStr(v) ==
    CASE v.kind = "int" -> NatStr(v.num)
      [] v.kind = "float" -> NatStr(v.num) \o <<".">> \o NatStr(v.frac)
      [] v.kind = "str" -> v.txt
      [] OTHER -> <<"N", "o", "n", "e">>

\* old_num != new_num, old_num an int and new_num a loaded JSON value
PyNe(old_num, v) ==
    CASE v.kind = "int" -> v.num # old_num
      [] v.kind = "float" -> ~(v.num = old_num /\ v.frac = 0)
      [] OTHER -> TRUE

\* ------------------------------------------------------------- the pattern #(\d+)\b
WordBoundary(s, j) ==
    (j >= 1 /\ j <= Len(s) /\ IsWord(s[j])) # (j + 1 <= Len(s) /\ IsWord(s[j + 1]))

SetMax(S) == CHOOSE m \in S : \A k \in S : k <= m

\* End of the match of #(\d+)\b that starts at i, 0 when there is none: the
\* digit run is greedy and backs off until a word boundary follows it.
MatchEndNoBoundary(s, i) ==
    IF s[i] # "#" THEN 0
    ELSE The({IF ends = {} THEN 0 ELSE SetMax(ends) :
                 ends \in {{j \in (i + 1)..Len(s) : \A k \in (i + 1)..j : IsDigit(s[k])}}})

MatchEnd(s, i) ==
    IF s[i] # "#" THEN 0
    ELSE The({IF ends = {} THEN 0 ELSE SetMax(ends) :
                 ends \in {{j \in (i + 1)..Len(s) :
                               /\ \A k \in (i + 1)..j : IsDigit(s[k])
                               /\ WordBoundary(s, j)}}})

\* re.finditer: the non-overlapping matches, leftmost first, as <<start, end>>
RECURSIVE finditer(_, _)
FindAt(s, pos, e) ==
    IF pos > Len(s) THEN <<>>
    ELSE IF e = 0 THEN finditer(s, pos + 1)
    ELSE <<(<<pos, e>>)>> \o finditer(s, e + 1)

finditer(s, pos) == The({FindAt(t, p, MatchEnd(t, p)) : <<t, p>> \in {<<s, pos>>}})

\* re.search
search(s) == The({finditer(t, 1) : t \in {s}}) # <<>>

Group1Numbers(line, ms) == {PyInt(SubSeq(line, ms[k][1] + 1, ms[k][2])) : k \in 1..Len(ms)}

find_issue_references_in_line(line) ==
    The({Group1Numbers(l, ms) : <<l, ms>> \in {<<line, finditer(line, 1)>>}})

\* ------------------------------------------------------------- remap_line
\* The closure replace_issue: the replacement text and the changes it appends.
Replaced(old_num, new_num) ==
    [repl |-> <<"#">> \o PyStr(new_num), chg |-> <<(<<old_num, new_num>>)>>]

replace_issue_always(group0, group1, mapping) ==
    The({IF old_num \in DOMAIN mapping
         THEN Replaced(old_num, mapping[old_num])
         ELSE [repl |-> group0, chg |-> <<>>] : old_num \in {PyInt(group1)}})

replace_issue(group0, group1, mapping) ==
    The({IF old_num \in DOMAIN mapping /\ PyNe(old_num, mapping[old_num])
         THEN Replaced(old_num, mapping[old_num])
         ELSE [repl |-> group0, chg |-> <<>>] : old_num \in {PyInt(group1)}})

\* re.sub with replace_issue, from position pos on; done is the text built
\* and the changes appended so far.
Glue(done, r) == [text |-> done.text \o r.repl, changes |-> done.changes \o r.chg]

RECURSIVE sub(_, _, _, _)
SubAt(s, pos, e, mapping, done) ==
    IF pos > Len(s) THEN done
    ELSE IF e = 0
    THEN sub(s, pos + 1, mapping, Glue(done, [repl |-> <<s[pos]>>, chg |-> <<>>]))
    ELSE sub(s, e + 1, mapping,
             The({Glue(done, r) :
                     r \in {replace_issue(SubSeq(s, pos, e), SubSeq(s, pos + 1, e), mapping)}}))

sub(s, pos, mapping, done) ==
    The({SubAt(t, p, MatchEnd(t, p), m, d) : <<t, p, m, d>> \in {<<s, pos, mapping, done>>}})

Returned(r) == [updated_line |-> r.text, changes |-> r.changes]

remap_line(line, mapping) ==
    The({Returned(r) :
            r \in {The({sub(l, 1, mapping, [text |-> <<>>, changes |-> <<>>]) :
                           l \in {line}})}})

\* ------------------------------------------------------------- load_mapping
\* A key that int() accepts: a non-empty run of decimal digits.
IsDecimal(k) == k # <<>> /\ \A i \in 1..Len(k) : IsDigit(k[i])

\* {int(k): v for k, v in items}: a later item replaces an earlier one
RECURSIVE DictOf(_)
DictOf(items) ==
    IF items = <<>> THEN <<>>
    ELSE LET n == Len(items)
             init == DictOf(SubSeq(items, 1, n - 1))
             k == PyInt(items[n][1])
         IN  [x \in (DOMAIN init) \cup {k} |-> IF x = k THEN items[n][2] ELSE init[x]]

\* A load_mapping that drops the items whose key is no number instead of failing.
load_mapping_skip_bad_keys(mf) ==
    IF ~mf.readable \/ ~mf.valid_json \/ ~mf.has_field
    THEN [raised |-> TRUE, mappings |-> <<>>]
    ELSE [raised |-> FALSE,
          mappings |-> DictOf(SelectSeq(mf.items, LAMBDA it : IsDecimal(it[1])))]

\* mf is the mapping file as found on disk.  The result says whether an
\* exception left load_mapping (open, json.load, data["mappings"], int(k)).
load_mapping(mf) ==
    IF \/ ~mf.readable
       \/ ~mf.valid_json
       \/ ~mf.has_field
       \/ \E i \in 1..Len(mf.items) : ~IsDecimal(mf.items[i][1])
    THEN [raised |-> TRUE, mappings |-> <<>>]
    ELSE [raised |-> FALSE, mappings |-> DictOf(mf.items)]

\* ------------------------------------------------------------- find_source_files
RECURSIVE sorted(_)
sorted(files) ==
    IF files = <<>> THEN <<>>
    ELSE LET m == CHOOSE i \in 1..Len(files) : \A j \in 1..Len(files) : files[i] <= files[j]
         IN  <<files[m]>> \o sorted(SubSeq(files, 1, m - 1) \o SubSeq(files, m + 1, Len(files)))

find_source_files_unsorted(found) == found

\* found is the order in which rglob yields the *.swift files
find_source_files(found) == sorted(found)

\* ------------------------------------------------------------- file text
\* f.readlines(): the content cut after every newline
RECURSIVE readlines(_)
FirstLineAndRest(text) ==
    IF text = <<>> THEN <<>>
    ELSE IF \E k \in 1..Len(text) : text[k] = "\n"
         THEN The({<<SubSeq(text, 1, k)>> \o readlines(SubSeq(text, k + 1, Len(text))) :
                      k \in {j \in 1..Len(text) :
                                /\ text[j] = "\n"
                                /\ \A i \in 1..(j - 1) : text[i] # "\n"}})
         ELSE <<text>>

readlines(content) == The({FirstLineAndRest(text) : text \in {content}})

\* f.writelines(lines)
RECURSIVE FlattenFirst(_, _)
FlattenFirst(ss, n) == IF n = 0 THEN <<>> ELSE FlattenFirst(ss, n - 1) \o ss[n]

Flatten(ss) == The({FlattenFirst(q, Len(q)) : q \in {ss}})

\* f.writelines(lines)
writelines(lines) == Flatten(lines)

\* s.rstrip()
rstrip(s) ==
    The({SubSeq(t, 1, SetMax({0} \cup {k \in 1..Len(t) : ~IsSpace(t[k])})) : t \in {s}})

SumLen(ss) == Len(Flatten(ss))

\* ------------------------------------------------------------- process_file
DiffLimit == 10

\* The loop over the lines (RewritePass): the new lines, the number of changes,
\* and for each changed line <<line_num, changes, old line stripped, new line
\* stripped>>.
\* rs[n] is what remap_line returned for line n.
RECURSIVE LineChanges(_, _, _)
LineChanges(lines, rs, n) ==
    IF n = 0 THEN <<>>
    ELSE LineChanges(lines, rs, n - 1)
         \o (IF rs[n].changes # <<>>
             THEN <<(<<n, rs[n].changes, rstrip(lines[n]), rstrip(rs[n].updated_line)>>)>>
             ELSE <<>>)

RECURSIVE NewLines(_, _)
NewLines(rs, n) == IF n = 0 THEN <<>> ELSE Append(NewLines(rs, n - 1), rs[n].updated_line)

RECURSIVE TotalChanges(_, _)
TotalChanges(rs, n) == IF n = 0 THEN 0 ELSE TotalChanges(rs, n - 1) + Len(rs[n].changes)

CollectChanges(lines, rs) ==
    [new_lines |-> NewLines(rs, Len(rs)),
     total_changes |-> TotalChanges(rs, Len(rs)),
     line_changes |-> LineChanges(lines, rs, Len(rs))]

\* remap_line applied to the first n lines, in order
RECURSIVE RemapFirst(_, _, _)
RemapFirst(lines, n, mapping) ==
    IF n = 0 THEN <<>>
    ELSE Append(RemapFirst(lines, n - 1, mapping), remap_line(lines[n], mapping))

RewritePass(lines, mapping) ==
    The({The({CollectChanges(ls, rs) : rs \in {RemapFirst(ls, Len(ls), mapping)}}) :
            ls \in {lines}})

\* What is printed for one file that has changes, before it is written.
LinePrints(lc, show_diff) ==
    [c \in 1..Len(lc[2]) |-> <<"Line", lc[1], lc[2][c][1], lc[2][c][2]>>]
    \o (IF show_diff THEN <<(<<"-", lc[3]>>), <<"+", lc[4]>>>> ELSE <<>>)

RECURSIVE ChangePrints(_, _)
ChangePrints(line_changes, n) ==
    IF n = 0 THEN <<>>
    ELSE ChangePrints(line_changes, n - 1)
         \o LinePrints(line_changes[n], Len(line_changes) <= DiffLimit)

ReportPrints(file_path, total_changes, line_changes) ==
    <<(<<"UPDATE", file_path>>), <<"Making", total_changes>>>>
    \o ChangePrints(line_changes, Len(line_changes))

\* open(file_path, 'a') in place of 'w': the new lines follow the old content.
open_a_writelines(content, new_lines) == content \o writelines(new_lines)

\* open(file_path, 'w') and f.writelines(new_lines): the content afterwards
open_w_writelines(content, new_lines) == writelines(new_lines)

\* The write that does not look at dry_run.
Persist_ignoring_dry_run(file_path, content, new_lines, total_changes, failure, dry_run, prints) ==
    IF failure = "write"
    THEN [changed |-> FALSE, num_changes |-> total_changes,
          prints |-> Append(prints, <<"WriteFailed", file_path>>),
          opened |-> TRUE, content |-> content]
    ELSE [changed |-> TRUE, num_changes |-> total_changes,
          prints |-> Append(prints, <<"Updated", file_path>>),
          opened |-> TRUE, content |-> open_w_writelines(content, new_lines)]

\* "# Write changes".  failure = "write" is an open() that raises, which
\* leaves the file as it was.
Persist(file_path, content, new_lines, total_changes, failure, dry_run, prints) ==
    IF ~dry_run
    THEN IF failure = "write"
         THEN [changed |-> FALSE, num_changes |-> total_changes,
               prints |-> Append(prints, <<"WriteFailed", file_path>>),
               opened |-> TRUE, content |-> content]
         ELSE [changed |-> TRUE, num_changes |-> total_changes,
               prints |-> Append(prints, <<"Updated", file_path>>),
               opened |-> TRUE, content |-> open_w_writelines(content, new_lines)]
    ELSE [changed |-> TRUE, num_changes |-> total_changes,
          prints |-> Append(prints, <<"WouldUpdate", file_path>>),
          opened |-> FALSE, content |-> content]

\* "# Print changes" and "# Write changes", p the outcome of the loop
ReportAndPersist(file_path, content, failure, dry_run, p) ==
    Persist(file_path, content, p.new_lines, p.total_changes, failure, dry_run,
            ReportPrints(file_path, p.total_changes, p.line_changes))

\* process_file after the loop over the lines, p the outcome of the loop
AfterRewrite(file_path, content, failure, dry_run, p) ==
    IF p.total_changes = 0
    THEN [changed |-> FALSE, num_changes |-> 0, prints |-> <<>>,
          opened |-> FALSE, content |-> content]
    ELSE ReportAndPersist(file_path, content, failure, dry_run, p)

\* A process_file without the early return for a file that has no change.
process_file_no_early_return(file_path, content, failure, mapping, dry_run) ==
    IF failure = "read"
    THEN [changed |-> FALSE, num_changes |-> 0,
          prints |-> <<(<<"ReadFailed", file_path>>)>>,
          opened |-> FALSE, content |-> content]
    ELSE The({ReportAndPersist(file_path, content, failure, dry_run, p) :
                 p \in {RewritePass(readlines(content), mapping)}})

\* content is the file's text on disk and failure the I/O error this file
\* meets, if any.  The result carries (changed, num_changes), what was
\* printed, whether the file was opened for writing, and its text afterwards.
process_file(file_path, content, failure, mapping, dry_run) ==
    IF failure = "read"
    THEN [changed |-> FALSE, num_changes |-> 0,
          prints |-> <<(<<"ReadFailed", file_path>>)>>,
          opened |-> FALSE, content |-> content]
    ELSE The({AfterRewrite(file_path, content, failure, dry_run, p) :
                 p \in {RewritePass(readlines(content), mapping)}})

\* ------------------------------------------------------------- inputs
\* The *.swift files under the working directory; a smaller number is the
\* path that sorts first.
Paths == {1, 2}

Contents ==
    { <<"a", "\n">>,
      <<"#", "1", "0", " ", "#", "2", "0", " ", "#", "3", "0", ".", "\n">>,
      <<"#", "1", "0", "a", "\n", "#", "2", "0">>,
      <<"x", "\n", "#", "1", "0", " ", "#", "1", "0", "\n">> }

\* none: no error; scan: the read of the pre-filter fails; read: the read of
\* process_file fails; write: the open for writing fails
Failures == {"none", "scan", "read", "write"}

MapFile(items) == [readable |-> TRUE, valid_json |-> TRUE, has_field |-> TRUE, items |-> items]

GoodMapFiles ==
    { MapFile(<<(<<(<<"1", "0">>), JInt(50)>>), <<(<<"2", "0">>), JInt(20)>>>>),
      MapFile(<<(<<(<<"1", "0">>), JInt(20)>>), <<(<<"2", "0">>), JInt(30)>>>>),
      MapFile(<<(<<(<<"1", "0">>), JStr(<<"a", "b">>)>>), <<(<<"2", "0">>), JNull>>>>),
      MapFile(<<(<<(<<"1", "0">>), JFloat(10, 0)>>), <<(<<"2", "0">>), JFloat(2, 5)>>>>) }

BadMapFiles ==
    { MapFile(<<(<<(<<"x">>), JInt(1)>>), <<(<<"1", "0">>), JInt(50)>>>>),
      [readable |-> FALSE, valid_json |-> FALSE, has_field |-> FALSE, items |-> <<>>],
      [readable |-> TRUE, valid_json |-> FALSE, has_field |-> FALSE, items |-> <<>>],
      [readable |-> TRUE, valid_json |-> TRUE, has_field |-> FALSE, items |-> <<>>] }

MapFiles == GoodMapFiles \cup BadMapFiles

Argvs ==
    { <<"remap_code_references.py">>,
      <<"remap_code_references.py", "issue-mapping.json">>,
      <<"remap_code_references.py", "issue-mapping.json", "--dry-run">> }

LineAlphabet == {"#", "1", "0", "a", "_", "."}

ExampleLines ==
    { <<"S", "e", "e", " ", "#", "1", "0", " ", "a", "n", "d", " ", "#", "2", "0", " ", "a", "n", "d", " ", "#", "3", "0", ".">>,
      <<"#", "1", "2", "3", "a", "b", "c", " ", "#", "1", "2", "3", "\n">>,
      <<"#", "2", "0", ",", " ", "#", "0", "1", "0", " ", "#", "1", "0">> }

Lines == ExampleLines \cup UNION {[1..n -> LineAlphabet] : n \in 0..MaxLineLen}

LineMappings ==
    {load_mapping(mf).mappings : mf \in GoodMapFiles}
    \cup { DictOf(<<(<<(<<"1">>), JInt(10)>>), <<(<<"1", "0">>), JInt(1)>>>>),
           DictOf(<<(<<(<<"1", "2", "3">>), JInt(7)>>)>>) }

NoRun == [valid |-> FALSE, dry_run |-> FALSE, pc |-> "idle", out |-> <<>>, runDisk |-> <<>>]

\* ------------------------------------------------------------- state
VARIABLES
    mapfile,              \* the mapping file on disk
    disk,                 \* path -> text of the file
    fail,                 \* path -> the I/O error the file meets
    runs,                 \* number of invocations so far
    pc,                   \* where main() is
    argv,                 \* sys.argv
    dry_run,
    mapping,
    source_files,
    files_with_refs,
    idx,                  \* position of the running for loop
    total_files_changed,
    total_changes,
    out,                  \* what was printed, in order
    opened,               \* paths opened for writing in this run, in order
    visited,              \* paths handed to process_file in this run, in order
    runDisk,              \* disk when this run started
    prev,                 \* the run before this one
    line,                 \* input of the line-level functions
    lmap,
    called,
    lres,
    lrefs

progVars == <<mapfile, disk, fail, runs, pc, argv, dry_run, mapping, source_files,
              files_with_refs, idx, total_files_changed, total_changes, out, opened,
              visited, runDisk, prev>>

lineVars == <<line, lmap, called, lres, lrefs>>

vars == <<progVars, lineVars>>

NoResult == [updated_line |-> <<>>, changes |-> <<>>]

LineIdle ==
    /\ line = <<>>
    /\ lmap = <<>>
    /\ called = {}
    /\ lres = NoResult
    /\ lrefs = {}

ProgIdle ==
    /\ mapfile = MapFile(<<>>)
    /\ disk = <<>>
    /\ fail = <<>>
    /\ runs = 0
    /\ pc = "off"
    /\ argv = <<>>
    /\ dry_run = FALSE
    /\ mapping = <<>>
    /\ source_files = <<>>
    /\ files_with_refs = <<>>
    /\ idx = 0
    /\ total_files_changed = 0
    /\ total_changes = 0
    /\ out = <<>>
    /\ opened = <<>>
    /\ visited = <<>>
    /\ runDisk = <<>>
    /\ prev = NoRun

Init ==
    /\ mapfile \in MapFiles
    /\ disk \in [Paths -> Contents]
    /\ fail \in [Paths -> Failures]
    /\ runs = 0
    /\ pc = "idle"
    /\ argv = <<>>
    /\ dry_run = FALSE
    /\ mapping = <<>>
    /\ source_files = <<>>
    /\ files_with_refs = <<>>
    /\ idx = 0
    /\ total_files_changed = 0
    /\ total_changes = 0
    /\ out = <<>>
    /\ opened = <<>>
    /\ visited = <<>>
    /\ runDisk = disk
    /\ prev = NoRun
    /\ LineIdle

Ended == pc \in {"done", "exit1", "crashed"}

\* The script is started: python3 remap_code_references.py ...
Invoke ==
    /\ pc = "idle" \/ Ended
    /\ runs < MaxRuns
    /\ \E a \in Argvs : argv' = a
    /\ runs' = runs + 1
    /\ pc' = "main"
    /\ prev' = IF runs = 0 THEN NoRun
               ELSE [valid |-> TRUE, dry_run |-> dry_run, pc |-> pc, out |-> out,
                     runDisk |-> runDisk]
    /\ runDisk' = disk
    /\ dry_run' = FALSE
    /\ mapping' = <<>>
    /\ source_files' = <<>>
    /\ files_with_refs' = <<>>
    /\ idx' = 0
    /\ total_files_changed' = 0
    /\ total_changes' = 0
    /\ out' = <<>>
    /\ opened' = <<>>
    /\ visited' = <<>>
    /\ UNCHANGED <<mapfile, disk, fail, lineVars>>

\* main(), up to the call of load_mapping
MainArgs ==
    /\ pc = "main"
    /\ IF Len(argv) < 2
       THEN /\ out' = Append(out, <<"Usage">>)
            /\ pc' = "exit1"
            /\ UNCHANGED dry_run
       ELSE /\ dry_run' = (\E k \in 1..Len(argv) : argv[k] = "--dry-run")
            /\ out' = out \o (IF dry_run' THEN <<(<<"DryRunMode">>)>> ELSE <<>>)
            /\ pc' = "load"
    /\ UNCHANGED <<mapfile, disk, fail, runs, argv, mapping, source_files, files_with_refs,
                   idx, total_files_changed, total_changes, opened, visited, runDisk, prev,
                   lineVars>>

\* What the call of load_mapping leaves behind, r its outcome
Loaded(r) ==
    IF r.raised
    THEN /\ pc' = "crashed"
         /\ out' = Append(out, <<"Loading">>)
         /\ UNCHANGED mapping
    ELSE /\ pc' = "find"
         /\ mapping' = r.mappings
         /\ out' = out \o <<(<<"Loading">>), <<"Loaded", Cardinality(DOMAIN r.mappings)>>>>

\* mapping = load_mapping(mapping_file); an exception ends the process
MainLoad ==
    /\ pc = "load"
    /\ \E r \in {load_mapping(mapfile)} : Loaded(r)
    /\ UNCHANGED <<mapfile, disk, fail, runs, argv, dry_run, source_files, files_with_refs,
                   idx, total_files_changed, total_changes, opened, visited, runDisk, prev,
                   lineVars>>

\* The orders in which rglob may yield the files
Orders == {o \in [1..Cardinality(Paths) -> Paths] : \A p \in Paths : \E k \in DOMAIN o : o[k] = p}

\* source_files = find_source_files(".", ["swift"])
MainFind ==
    /\ pc = "find"
    /\ \E found \in Orders : source_files' = find_source_files(found)
    /\ out' = Append(out, <<"FoundSwift", Len(source_files')>>)
    /\ idx' = 1
    /\ files_with_refs' = <<>>
    /\ pc' = "scan"
    /\ UNCHANGED <<mapfile, disk, fail, runs, argv, dry_run, mapping, total_files_changed,
                   total_changes, opened, visited, runDisk, prev, lineVars>>

\* One turn of the pre-filter loop
MainScan ==
    /\ pc = "scan"
    /\ idx <= Len(source_files)
    /\ LET file_path == source_files[idx]
       IN  files_with_refs' =
               IF fail[file_path] # "scan" /\ search(disk[file_path])
               THEN Append(files_with_refs, file_path)
               ELSE files_with_refs
    /\ idx' = idx + 1
    /\ UNCHANGED <<mapfile, disk, fail, runs, pc, argv, dry_run, mapping, source_files,
                   total_files_changed, total_changes, out, opened, visited, runDisk, prev,
                   lineVars>>

\* After the pre-filter loop: the counters are set up
MainScanned ==
    /\ pc = "scan"
    /\ idx > Len(source_files)
    /\ out' = Append(out, <<"FoundRefs", Len(files_with_refs)>>)
    /\ total_files_changed' = 0
    /\ total_changes' = 0
    /\ idx' = 1
    /\ pc' = "process"
    /\ UNCHANGED <<mapfile, disk, fail, runs, argv, dry_run, mapping, source_files,
                   files_with_refs, opened, visited, runDisk, prev, lineVars>>

\* The counters after one file, when only changed guards them both
TallyResult(changed, num_changes, files, changes) ==
    IF changed THEN <<files + 1, changes + num_changes>> ELSE <<files, changes>>

\* What one call of process_file leaves behind, r its result
Processed(file_path, r) ==
    /\ disk' = [disk EXCEPT ![file_path] = r.content]
    /\ out' = out \o r.prints
    /\ opened' = IF r.opened THEN Append(opened, file_path) ELSE opened
    /\ visited' = Append(visited, file_path)
    /\ total_files_changed' =
           TallyResult(r.changed, r.num_changes, total_files_changed, total_changes)[1]
    /\ total_changes' =
           TallyResult(r.changed, r.num_changes, total_files_changed, total_changes)[2]

\* One turn of the "Process files" loop
MainProcess ==
    /\ pc = "process"
    /\ idx <= Len(files_with_refs)
    /\ \E r \in {process_file(files_with_refs[idx], disk[files_with_refs[idx]],
                              fail[files_with_refs[idx]], mapping, dry_run)} :
           Processed(files_with_refs[idx], r)
    /\ idx' = idx + 1
    /\ UNCHANGED <<mapfile, fail, runs, pc, argv, dry_run, mapping, source_files,
                   files_with_refs, runDisk, prev, lineVars>>

\* The summary, after the loop
MainSummary ==
    /\ pc = "process"
    /\ idx > Len(files_with_refs)
    /\ out' = Append(out, <<"SUMMARY", Len(files_with_refs), total_files_changed, total_changes>>)
    /\ pc' = "done"
    /\ UNCHANGED <<mapfile, disk, fail, runs, argv, dry_run, mapping, source_files,
                   files_with_refs, idx, total_files_changed, total_changes, opened,
                   visited, runDisk, prev, lineVars>>

Next ==
    \/ Invoke
    \/ MainArgs
    \/ MainLoad
    \/ MainFind
    \/ MainScan
    \/ MainScanned
    \/ MainProcess
    \/ MainSummary

Spec == Init /\ [][Next]_vars

\* main() has no blocking step: once started it runs to its end.
FairSpec == Spec /\ WF_vars(MainArgs \/ MainLoad \/ MainFind \/ MainScan \/ MainScanned
                            \/ MainProcess \/ MainSummary)

\* ------------------------------------------------------------- the line-level functions alone
LineInit ==
    /\ line \in Lines
    /\ lmap \in LineMappings
    /\ called = {}
    /\ lres = NoResult
    /\ lrefs = {}
    /\ ProgIdle

CallRemapLine ==
    /\ "remap_line" \notin called
    /\ called' = called \cup {"remap_line"}
    /\ lres' = remap_line(line, lmap)
    /\ UNCHANGED <<line, lmap, lrefs, progVars>>

CallFindReferences ==
    /\ "find_issue_references_in_line" \notin called
    /\ called' = called \cup {"find_issue_references_in_line"}
    /\ lrefs' = find_issue_references_in_line(line)
    /\ UNCHANGED <<line, lmap, lres, progVars>>

LineNext ==
    \/ CallRemapLine
    \/ CallFindReferences

LineSpec == LineInit /\ [][LineNext]_vars

\* ------------------------------------------------------------- reference tokens, stated on the text
\* A reference token occupies i..j: a '#', then digits up to j, and after j
\* the end of the line or a character that is neither letter, digit nor '_'.
IsToken(s, i, j) ==
    /\ i < j /\ j <= Len(s)
    /\ s[i] = "#"
    /\ \A k \in (i + 1)..j : s[k] \in {"0", "1", "2", "3", "4", "5", "6", "7", "8", "9"}
    /\ j = Len(s) \/ ~IsWord(s[j + 1])

TokenEnd(s, i) == IF \E j \in 1..Len(s) : IsToken(s, i, j)
                  THEN CHOOSE j \in 1..Len(s) : IsToken(s, i, j) ELSE 0

TokenNumber(s, i) == PyInt(SubSeq(s, i + 1, TokenEnd(s, i)))

\* n is a key of m and m[n] != n
MapsAway(m, n) ==
    /\ n \in DOMAIN m
    /\ ~(m[n].kind \in {"int", "float"} /\ m[n].num = n /\ m[n].frac = 0)

\* The token that starts at i is one the mapping rewrites.
RewrittenAt(s, i, m) == TokenEnd(s, i) # 0 /\ MapsAway(m, TokenNumber(s, i))

\* What position i of the line contributes to the rewritten line.
Piece(s, i, m) ==
    IF RewrittenAt(s, i, m) THEN <<"#">> \o PyStr(m[TokenNumber(s, i)])
    ELSE IF \E i0 \in 1..(i - 1) : RewrittenAt(s, i0, m) /\ i <= TokenEnd(s, i0) THEN <<>>
    ELSE <<s[i]>>

ExpectedLine(s, m) == Flatten([i \in 1..Len(s) |-> Piece(s, i, m)])

ExpectedChanges(s, m) ==
    Flatten([i \in 1..Len(s) |->
                IF RewrittenAt(s, i, m)
                THEN <<(<<TokenNumber(s, i), m[TokenNumber(s, i)]>>)>> ELSE <<>>])

ExampleMapping == DictOf(<<(<<(<<"1", "0">>), JInt(50)>>), <<(<<"2", "0">>), JInt(20)>>>>)

\* C1: remap_line rewrites a token #n to #M[n] exactly when n is a key of M
\* and M[n] differs from n, leaves every other character of the line as it
\* was, and returns one (n, M[n]) per rewritten token, from left to right;
\* on `See #10 and #20 and #30.` with {10: 50, 20: 20} it gives
\* `See #50 and #20 and #30.` and one change.
C1_RemapLine ==
    "remap_line" \in called =>
        /\ lres.updated_line = ExpectedLine(line, lmap)
        /\ lres.changes = ExpectedChanges(line, lmap)
        /\ (line = <<"S", "e", "e", " ", "#", "1", "0", " ", "a", "n", "d", " ", "#", "2", "0", " ", "a", "n", "d", " ", "#", "3", "0", ".">> /\ lmap = ExampleMapping) =>
               /\ lres.updated_line = <<"S", "e", "e", " ", "#", "5", "0", " ", "a", "n", "d", " ", "#", "2", "0", " ", "a", "n", "d", " ", "#", "3", "0", ".">>
               /\ lres.changes = <<(<<10, JInt(50)>>)>>

C1_Witness ==
    /\ "remap_line" \in called
    /\ line = <<"S", "e", "e", " ", "#", "1", "0", " ", "a", "n", "d", " ", "#", "2", "0", " ", "a", "n", "d", " ", "#", "3", "0", ".">>
    /\ lmap = ExampleMapping
    /\ Len(lres.changes) = 1
    /\ lres.updated_line # line

\* Number of the '#'-and-digits run that starts at i and ends at j, whatever follows it.
IsRun(s, i, j) ==
    /\ i < j /\ j <= Len(s)
    /\ s[i] = "#"
    /\ \A k \in (i + 1)..j : IsDigit(s[k])
    /\ j = Len(s) \/ ~IsDigit(s[j + 1])

Runs(s) == {r \in (1..Len(s)) \X (1..Len(s)) : IsRun(s, r[1], r[2])}

RunNumber(s, r) == PyInt(SubSeq(s, r[1] + 1, r[2]))

\* The run is followed by a letter or an underscore.
GluedToWord(s, r) == r[2] < Len(s) /\ IsWord(s[r[2] + 1])

References(s) == {RunNumber(s, r) : r \in {q \in Runs(s) : ~GluedToWord(s, q)}}

OldNumbers(changes) == {changes[k][1] : k \in 1..Len(changes)}

\* C8: a '#' and digits followed at once by a word character is no reference
\* and is never rewritten; followed by the end of the line, punctuation or
\* white space it is the reference of its number.
C8_WordBoundary ==
    /\ "find_issue_references_in_line" \in called => lrefs = References(line)
    /\ "remap_line" \in called =>
          /\ OldNumbers(lres.changes) = {n \in References(line) : MapsAway(lmap, n)}
          /\ (\A r \in Runs(line) : GluedToWord(line, r)) => lres.updated_line = line

C8_Witness ==
    /\ called = {"remap_line", "find_issue_references_in_line"}
    /\ line = <<"#", "1", "2", "3", "a", "b", "c", " ", "#", "1", "2", "3", "\n">>
    /\ 123 \in DOMAIN lmap
    /\ lrefs = {123}
    /\ lres.updated_line = <<"#", "1", "2", "3", "a", "b", "c", " ", "#", "7", "\n">>

\* ------------------------------------------------------------- whole runs
Printed(rec) == \E k \in 1..Len(out) : out[k] = rec

InSeq(q, x) == \E k \in 1..Len(q) : q[k] = x

\* Number of changes the mapping m asks for in a file of this content.
LineChangeCounts(ls, m) == SumLen([n \in 1..Len(ls) |-> ExpectedChanges(ls[n], m)])

NumChanges(content, m) == LineChangeCounts(readlines(content), m)

\* The content with every line rewritten as the mapping m asks.
RewrittenLines(ls, m) == Flatten([n \in 1..Len(ls) |-> ExpectedLine(ls[n], m)])

Rewritten(content, m) == RewrittenLines(readlines(content), m)

\* C2: in a dry run no file is opened for writing and every file keeps the
\* content it had when the run started, however many changes are reported.
C2_DryRunWritesNothing ==
    dry_run => /\ disk = runDisk
               /\ opened = <<>>

C2_Witness ==
    /\ pc = "done"
    /\ dry_run
    /\ total_changes > 1
    /\ total_files_changed = 2
    /\ disk = runDisk

\* The mapping file is one that load_mapping cannot load.
Malformed(mf) ==
    \/ ~mf.readable
    \/ ~mf.valid_json
    \/ ~mf.has_field
    \/ \E i \in 1..Len(mf.items) :
          \/ mf.items[i][1] = <<>>
          \/ \E k \in 1..Len(mf.items[i][1]) : ~IsDigit(mf.items[i][1][k])

\* C5: a run without the mapping-file argument, or whose mapping file cannot
\* be loaded, ends before the file loops and changes no file; and a file is
\* opened for writing only once the mapping is loaded.
C5_FatalBeforeAnyWrite ==
    /\ (runs > 0 /\ (Len(argv) < 2 \/ Malformed(mapfile))) =>
          /\ pc \in {"main", "load", "exit1", "crashed"}
          /\ disk = runDisk
          /\ opened = <<>>
    /\ opened # <<>> => pc \in {"process", "done"} /\ ~Malformed(mapfile)

C5_Witness ==
    /\ pc = "crashed"
    /\ mapfile.valid_json
    /\ ~mapfile.has_field
    /\ search(disk[1])
    /\ fail[1] = "none"
    /\ disk = runDisk

HasNonIntegerValue(mf) == \E i \in 1..Len(mf.items) : mf.items[i][2].kind # "int"

\* C6: a mapping file with a value that is no integer aborts the run, so no
\* file is modified.
C6_NonIntegerValueIsFatal ==
    HasNonIntegerValue(mapfile) => disk = runDisk

RECURSIVE SumMaking(_)
SumMaking(q) ==
    IF q = <<>> THEN 0
    ELSE (IF q[1][1] = "Making" THEN q[1][2] ELSE 0) + SumMaking(Tail(q))

\* C7: at the end of a run that writes, 'Total reference changes' is the sum
\* of the change counts of all files that had a change, files whose write
\* failed included.
C7_FailedWritesAreCounted ==
    (pc = "done" /\ ~dry_run) => total_changes = SumMaking(out)

\* The change report of a run: the files reported, their change counts, the
\* Line records and the summary.
Report(q) == SelectSeq(q, LAMBDA rec : rec[1] \in {"UPDATE", "Making", "Line", "SUMMARY"})

\* C3: a dry run and a normal run from the same files with the same mapping
\* print the same change report and the same summary counters.
C3_DryRunEquivalence ==
    (/\ pc = "done"
     /\ prev.valid
     /\ prev.pc = "done"
     /\ prev.dry_run # dry_run
     /\ prev.runDisk = runDisk) => Report(prev.out) = Report(out)

WriteFailed(q) == \E k \in 1..Len(q) : q[k][1] = "WriteFailed"

\* Two runs that write, one after the other, all writes succeeding
TwoWritingRuns ==
    /\ pc = "done"
    /\ ~dry_run
    /\ prev.valid
    /\ prev.pc = "done"
    /\ ~prev.dry_run
    /\ ~WriteFailed(prev.out)
    /\ ~WriteFailed(out)

SecondRunChangesNothing ==
    /\ total_files_changed = 0
    /\ total_changes = 0
    /\ disk = runDisk
    /\ opened = <<>>
    /\ \A k \in 1..Len(out) : out[k][1] # "UPDATE"

\* C4 as stated: the second of two runs that write changes nothing.
C4_Idempotence == TwoWritingRuns => SecondRunChangesNothing

\* No replacement the mapping writes is itself a reference the mapping rewrites.
NoChain(m) ==
    \A n \in DOMAIN m :
        MapsAway(m, n) =>
            \A k \in References(<<"#">> \o PyStr(m[n])) : ~MapsAway(m, k)

\* C4 amended: the second of two runs that write changes nothing, provided
\* no replacement written by the first run is a reference that the mapping
\* rewrites again.
C4_IdempotenceNoChain == (TwoWritingRuns /\ NoChain(mapping)) => SecondRunChangesNothing

C4_Witness ==
    /\ TwoWritingRuns
    /\ NoChain(mapping)
    /\ \E k \in 1..Len(prev.out) : prev.out[k][1] = "Updated"
    /\ prev.runDisk # runDisk
    /\ SecondRunChangesNothing

\* C10: a file in which the mapping changes nothing is never opened for
\* writing and gets no [UPDATE] block, the counters count only files that
\* have changes, and a file is opened for writing only when it has a change
\* and the run is no dry run.
C10_ZeroChangeFileUntouched ==
    /\ \A f \in Paths :
          (InSeq(opened, f) \/ Printed(<<"UPDATE", f>>) \/ disk[f] # runDisk[f]) =>
              NumChanges(runDisk[f], mapping) > 0
    /\ (total_files_changed > 0) =>
          total_files_changed <=
              Cardinality({f \in Paths :
                              InSeq(visited, f) /\ NumChanges(runDisk[f], mapping) > 0})
    /\ (total_files_changed = 0) => (total_changes = 0)
    /\ \A f \in Paths : InSeq(opened, f) => ~dry_run

C10_Witness ==
    /\ pc = "done"
    /\ ~dry_run
    /\ files_with_refs = <<1, 2>>
    /\ fail[1] = "none"
    /\ NumChanges(runDisk[1], mapping) = 0
    /\ opened = <<2>>
    /\ total_files_changed = 1

\* The files that pass the pre-filter of this run: read without error and
\* holding at least one reference token.
Passing ==
    {f \in Paths :
        /\ fail[f] # "scan"
        /\ \E i, j \in 1..Len(runDisk[f]) : IsToken(runDisk[f], i, j)}

Ascending(S) ==
    CHOOSE q \in [1..Cardinality(S) -> S] : \A i, j \in 1..Cardinality(S) : i < j => q[i] < q[j]

\* What process_file does with f when f is the only file there is.
Alone(f) == process_file(f, runDisk[f], fail[f], mapping, dry_run)

FileRecords(q) ==
    SelectSeq(q, LAMBDA rec : rec[1] \in {"UPDATE", "Making", "Line", "-", "+", "Updated",
                                          "WouldUpdate", "WriteFailed", "ReadFailed"})

AllHandledInOrder(order) ==
    /\ visited = order
    /\ FileRecords(out) = Flatten([k \in 1..Len(order) |-> Alone(order[k]).prints])
    /\ \A f \in Paths : disk[f] = IF f \in Passing THEN Alone(f).content ELSE runDisk[f]

\* C9: whatever reads and writes fail, a run whose mapping is loaded reaches
\* the summary, having handed every file that passed the pre-filter to
\* process_file in sorted order, and each file's content and printed changes
\* are those it gets when it is processed alone.
C9_FileErrorsAreNotFatal ==
    /\ (pc = "find") ~> (pc = "done")
    /\ [](pc = "done" => AllHandledInOrder(Ascending(Passing)))

C9_Witness ==
    /\ pc = "done"
    /\ visited = <<1, 2>>
    /\ fail[1] \in {"read", "write"}
    /\ Printed(<<"Updated", 2>>)
    /\ disk[1] = runDisk[1]
    /\ disk[2] # runDisk[2]
    /\ disk[2] = Rewritten(runDisk[2], mapping)

====
